---- MODULE Spec2Model ----
(***************************************************************************)
(* Control/data flow of LungSegmenterGUI (src/gui/main_window.py): the     *)
(* workflow state, the two ROI annotations, the per-organ mask store, the  *)
(* operation history and the background workers whose signals are queued   *)
(* to the coordinating (GUI) thread.                                       *)
(*                                                                         *)
(* core.state_manager, gui.workers and gui.widgets.roi_selector are        *)
(* imported by main_window.py but are not part of the source tree; the     *)
(* definitions that stand for them follow spec.md (sections 4.1, 4.2, 4.3, *)
(* 5) and say so.                                                          *)
(***************************************************************************)
EXTENDS Integers, Sequences, FiniteSets, TLC

\* ---------------------------------------------------------------- bounds
\* Total number of workers the operator may start in one behaviour.
MaxJobs == 3
\* Progress/log signals the workers may emit in one behaviour.
MaxProgress == 1
\* Progress/log signals the workers may emit in one behaviour of SpecJobs.
MaxSignals == 3
\* Records the operation history may hold when results are recorded by
\* direct calls.
MaxRecords == 2
\* Largest number of array dimensions of a volume given to validate_input.
MaxNdim == 4
\* Longest spacing given to validate_input.
MaxSpacingLen == 4
\* Largest spacing component, in mm, given to get_mask_statistics.
MaxSpacing == 3

\* ------------------------------------------------------------ value sets
None == "None"

\* None in a field that otherwise holds a tuple.
Absent == <<>>

\* UIState members used by main_window.py (lines 598, 732, 766, 843, 854,
\* 893, 947, 965, 1006, 1047, 1057).
UIState ==
  {"INITIAL", "VOLUME_LOADED", "ROI_DEFINED", "SEGMENTING", "MASK_READY", "REFINING"}

\* organ_key values of the registered models (keys of organ_colors, line 131).
Organs == {"lung", "liver"}

\* Contents of a mask array; two arrays are bit-identical iff they are the
\* same member of this set.
MaskVals == {"m1", "m2"}

\* volume.shape of the volume a DataLoadWorker delivers, (Z, Y, X).
Shape == <<2, 4, 4>>

\* Rectangles (x_min, x_max, y_min, y_max) the ROISelector reports in the
\* whole-workflow specifications.
RawRects == {<<0, 2, 0, 2>>}

VARIABLES
  state,              \* state_manager.current_state
  volume,             \* self.volume: None, or the loaded volume's shape (Z, Y, X)
  current_slice,      \* self.current_slice
  roi_selector,       \* self.roi_selector: which callback a drawn rectangle reaches
  roi1_3d,            \* roi_manager.roi1_3d: None or <<z, y0, y1, x0, x1>>
  roi2_3d,            \* roi_manager.roi2_3d
  base_masks,         \* self.base_masks: organ -> mask contents, None = key absent
  masks,              \* self.masks
  organ_combo,        \* organ_combo.currentText(); "" while the combo is empty
  operation_history,  \* self.operation_history
  workers,            \* started workers whose terminal signal is not yet handled
  queue,              \* signals posted to the GUI thread, in posting order
  njobs,              \* workers started so far
  nprogress,          \* progress/log signals emitted so far
  completed,          \* the jobs whose finished signal was handled, in that order
  segmented,          \* organ -> mask of its latest successful segmentation
  same_array,         \* organ -> masks[organ] is the very array base_masks[organ]
  last                \* the handler that ran last and how it ended

vars ==
  <<state, volume, current_slice, roi_selector, roi1_3d, roi2_3d, base_masks,
    masks, organ_combo, operation_history, workers, queue, njobs, nprogress,
    completed,
    segmented, same_array, last>>

\* ------------------------------------------------- workflow state machine
\* The transition table of spec.md section 4.2, as (source, target) pairs.
Edges ==
  { <<"INITIAL", "VOLUME_LOADED">>,        \* load:success
    <<"VOLUME_LOADED", "VOLUME_LOADED">>,  \* roi:reset
    <<"VOLUME_LOADED", "ROI_DEFINED">>,    \* roi:both_defined
    <<"ROI_DEFINED", "VOLUME_LOADED">>,    \* roi:reset
    <<"ROI_DEFINED", "SEGMENTING">>,       \* segment:start
    <<"SEGMENTING", "MASK_READY">>,        \* segment:success
    <<"SEGMENTING", "ROI_DEFINED">>,       \* segment:error
    <<"MASK_READY", "REFINING">>,          \* refine:start
    <<"REFINING", "MASK_READY">>,          \* refine:success, refine:error
    <<"MASK_READY", "VOLUME_LOADED">> }    \* roi:reset

\* Faulty variant of CanTransition: every transition is accepted.
CanTransition_any(from, to) == TRUE

\* UIStateManager.transition_to accepts new_state from the current state:
\* an edge of the table, or entering INITIAL while already in INITIAL (the
\* constructor, line 598, and the start of a load, line 732, which is the
\* only way a volume is ever loaded).
CanTransition(from, to) ==
  \/ <<from, to>> \in Edges
  \/ from = "INITIAL" /\ to = "INITIAL"

\* The state after state_manager.transition_to(new_state): the target, or
\* the unchanged state when the call raises IllegalTransitionError.
transition_to(new_state) ==
  IF CanTransition(state, new_state) THEN new_state ELSE state

\* How a handler that ends with transition_to(new_state) ends.
TransitionOutcome(new_state) ==
  IF CanTransition(state, new_state) THEN "ok" ELSE "IllegalTransitionError"

\* The capability set of a state: the trigger widgets (registered at lines
\* 579-596) that are enabled in it.  SEGMENTING and REFINING enable none; in
\* the other states a trigger is enabled when the table has its edge from
\* that state.
EnabledWidgets(s) ==
  CASE s = "INITIAL" -> {"btn_load"}
    [] s = "VOLUME_LOADED" -> {"btn_draw_roi1", "btn_draw_roi2", "btn_reset_roi"}
    [] s = "ROI_DEFINED" -> {"btn_draw_roi1", "btn_reset_roi", "btn_segment"}
    [] s = "MASK_READY" ->
         {"btn_draw_roi1", "btn_reset_roi", "btn_apply_refinement", "btn_reset_mask"}
    [] OTHER -> {}

WidgetEnabled(w) == w \in EnabledWidgets(state)

\* ---------------------------------------------------------------- helpers
\* A started worker: what it was constructed with, whether its run() has
\* ended, and (for the properties only) the mask store and the history as
\* they were when it was started.
Job(id, kind, organ, input) ==
  [id |-> id, kind |-> kind, organ |-> organ, input |-> input, done |-> FALSE,
   before |-> [base_masks |-> base_masks, masks |-> masks,
               operation_history |-> operation_history]]

\* A signal of worker w queued to the GUI thread; seq is its place in the
\* order of emission (for the properties only).
Event(w, sig, mask) ==
  [job |-> w.id, kind |-> w.kind, sig |-> sig, organ |-> w.organ, mask |-> mask,
   seq |-> nprogress]

\* Handlers that only update the display or a widget's value.
DisplayHandlers ==
  {"on_slice_changed", "select_organ", "on_segmentation_progress", "add_to_history",
   "draw_roi1", "roi1_callback"}

\* The value of last after handler op ended with outcome.
Done(op, outcome) ==
  IF op \in DisplayHandlers
    THEN [op |-> "display", outcome |-> "ok"]
    ELSE [op |-> op, outcome |-> outcome]


\* ------------------------------------------------------------ ROI manager
\* ROIManager.has_both_rois (spec.md 4.1, has_both).
has_both_rois == roi1_3d # Absent /\ roi2_3d # Absent

Min(a, b) == IF a < b THEN a ELSE b
Max(a, b) == IF a > b THEN a ELSE b

\* ROIManager.get_combined_roi_coords(shape) (spec.md 4.1, combined): z from
\* the two slices in order, x and y from the rectangle recorded for ROI2
\* (ROI1's size at ROI2's place), clipped into the volume; <<z0, z1, y0, y1,
\* x0, x1>>.
get_combined_roi_coords(shape) ==
  LET clip(v, dim) == Max(0, Min(shape[dim] - 1, v))
  IN  << Min(roi1_3d[1], roi2_3d[1]), Max(roi1_3d[1], roi2_3d[1]),
         clip(roi2_3d[2], 2), clip(roi2_3d[3], 2),
         clip(roi2_3d[4], 3), clip(roi2_3d[5], 3) >>

\* Faulty variant of CombinedROIValid: only the order of the slices is
\* checked.
CombinedROIValid_slices_only(c) == c[1] <= c[2]

\* get_combined_roi_coords raises ValueError for a degenerate box.
CombinedROIValid(c) == c[1] < c[2] /\ c[3] < c[4] /\ c[5] < c[6]

\* ------------------------------------------------------ handlers: loading
UnchangedROI == UNCHANGED <<current_slice, roi_selector, roi1_3d, roi2_3d>>
UnchangedMasks ==
  UNCHANGED <<base_masks, masks, organ_combo, operation_history, segmented, same_array>>
UnchangedJobs == UNCHANGED <<workers, queue, njobs, nprogress, completed>>

\* _load_dicom with a folder chosen: the state goes to INITIAL and a
\* DataLoadWorker is started.
load_dicom ==
  /\ njobs < MaxJobs
  /\ state' = transition_to("INITIAL")
  /\ IF CanTransition(state, "INITIAL")
       THEN /\ workers' = workers \cup {Job(njobs + 1, "load", None, None)}
            /\ njobs' = njobs + 1
            /\ last' = Done("load_dicom", "started")
       ELSE /\ UNCHANGED <<workers, njobs>>
            /\ last' = Done("load_dicom", "IllegalTransitionError")
  /\ UNCHANGED <<volume, queue, nprogress, completed>>
  /\ UnchangedROI
  /\ UnchangedMasks

\* The head of the GUI thread's queue is signal sig of a worker of this kind.
Delivered(kind, sig) ==
  /\ queue # <<>>
  /\ Head(queue).kind = kind
  /\ Head(queue).sig = sig

\* The job whose signal is at the head of the queue, as it was started: its
\* kind and the organ it was dispatched for.
CompletedJob ==
  LET w == CHOOSE w \in workers : w.id = Head(queue).job
  IN  [kind |-> w.kind, organ |-> w.organ]

\* The queue and the active workers after the head signal is handled: a
\* terminal signal ends its job.
Consume ==
  /\ queue' = Tail(queue)
  /\ workers' = IF Head(queue).sig \in {"finished", "error"}
                  THEN {w \in workers : w.id # Head(queue).job}
                  ELSE workers
  /\ completed' = IF Head(queue).sig = "finished" /\ Head(queue).kind # "load"
                    THEN Append(completed, CompletedJob)
                    ELSE completed
  /\ UNCHANGED <<njobs, nprogress>>

\* _on_load_finished: stores the volume, centres the slice, then
\* transition_to(VOLUME_LOADED).
on_load_finished ==
  /\ Delivered("load", "finished")
  /\ Consume
  /\ volume' = Shape
  /\ current_slice' = Shape[1] \div 2
  /\ state' = transition_to("VOLUME_LOADED")
  /\ last' = Done("on_load_finished", TransitionOutcome("VOLUME_LOADED"))
  /\ UNCHANGED <<roi_selector, roi1_3d, roi2_3d>>
  /\ UnchangedMasks

\* Faulty variant of on_load_error: the failed load is taken for a loaded
\* volume.
on_load_error_to_volume_loaded ==
  /\ Delivered("load", "error")
  /\ Consume
  /\ state' = transition_to("VOLUME_LOADED")
  /\ last' = Done("on_load_error", TransitionOutcome("VOLUME_LOADED"))
  /\ UNCHANGED volume
  /\ UnchangedROI
  /\ UnchangedMasks

\* _on_load_error: reports the error; no state is touched.
on_load_error ==
  /\ Delivered("load", "error")
  /\ Consume
  /\ last' = Done("on_load_error", "ok")
  /\ UNCHANGED <<state, volume>>
  /\ UnchangedROI
  /\ UnchangedMasks

\* ---------------------------------------------------------- handlers: ROI
\* Number of positions of slice_slider: that of the loaded volume (line
\* 759), and before any load that of the volume to come.
SliceCount == IF volume = Absent THEN Shape[1] ELSE volume[1]

\* _on_slice_changed(value).
on_slice_changed(value) ==
  /\ current_slice' = value
  /\ last' = Done("on_slice_changed", "ok")
  /\ UNCHANGED <<state, volume, roi_selector, roi1_3d, roi2_3d>>
  /\ UnchangedMasks
  /\ UnchangedJobs

\* _draw_roi1: arms a ROISelector for _roi1_callback, unless no volume.
draw_roi1 ==
  /\ IF volume = Absent
       THEN /\ UNCHANGED roi_selector
            /\ last' = Done("draw_roi1", "ignored")
       ELSE /\ roi_selector' = "roi1"
            /\ last' = Done("draw_roi1", "ok")
  /\ UNCHANGED <<state, volume, current_slice, roi1_3d, roi2_3d>>
  /\ UnchangedMasks
  /\ UnchangedJobs

\* _roi1_callback(coords): the drawn rectangle becomes ROI1 on the current
\* slice.  The selector reports one rectangle and disconnects.
roi1_callback(coords) ==
  /\ roi_selector = "roi1"
  /\ roi1_3d' = <<current_slice, coords[3], coords[4], coords[1], coords[2]>>
  /\ roi_selector' = None
  /\ last' = Done("roi1_callback", "ok")
  /\ UNCHANGED <<state, volume, current_slice, roi2_3d>>
  /\ UnchangedMasks
  /\ UnchangedJobs

\* _draw_roi2: arms a ROISelector for _roi2_callback, unless no volume or no
\* ROI1.
draw_roi2 ==
  /\ IF volume = Absent \/ roi1_3d = Absent
       THEN /\ UNCHANGED roi_selector
            /\ last' = Done("draw_roi2", "warning")
       ELSE /\ roi_selector' = "roi2"
            /\ last' = Done("draw_roi2", "ok")
  /\ UNCHANGED <<state, volume, current_slice, roi1_3d, roi2_3d>>
  /\ UnchangedMasks
  /\ UnchangedJobs

\* Faulty variant of AdjustedROI2: ROI1's size is laid out from the raw
\* rectangle's corner, not about its centre.
AdjustedROI2_from_corner(coords) ==
  LET roi1_width == roi1_3d[5] - roi1_3d[4]
      roi1_height == roi1_3d[3] - roi1_3d[2]
      x_min == Max(0, coords[1])
      x_max == Min(volume[3] - 1, x_min + roi1_width)
      y_min == Max(0, coords[3])
      y_max == Min(volume[2] - 1, y_min + roi1_height)
  IN  <<current_slice, y_min, y_max, x_min, x_max>>

\* Faulty variant of AdjustedROI2: the far edges are not clipped (lines 833
\* and 835 without min).
AdjustedROI2_unclipped(coords) ==
  LET roi1_width == roi1_3d[5] - roi1_3d[4]
      roi1_height == roi1_3d[3] - roi1_3d[2]
      center_x == (coords[1] + coords[2]) \div 2
      center_y == (coords[3] + coords[4]) \div 2
      x_min == Max(0, center_x - roi1_width \div 2)
      x_max == x_min + roi1_width
      y_min == Max(0, center_y - roi1_height \div 2)
      y_max == y_min + roi1_height
  IN  <<current_slice, y_min, y_max, x_min, x_max>>

\* The rectangle _roi2_callback records for raw rectangle coords: ROI1's
\* width and height about the raw rectangle's centre, clipped to the slice
\* (lines 825-835); <<z, y0, y1, x0, x1>>.
AdjustedROI2(coords) ==
  LET roi1_width == roi1_3d[5] - roi1_3d[4]
      roi1_height == roi1_3d[3] - roi1_3d[2]
      center_x == (coords[1] + coords[2]) \div 2
      center_y == (coords[3] + coords[4]) \div 2
      x_min == Max(0, center_x - roi1_width \div 2)
      x_max == Min(volume[3] - 1, x_min + roi1_width)
      y_min == Max(0, center_y - roi1_height \div 2)
      y_max == Min(volume[2] - 1, y_min + roi1_height)
  IN  <<current_slice, y_min, y_max, x_min, x_max>>

\* Faulty variant of roi2_callback: without ROI1 the drawn rectangle is
\* recorded as it is.
roi2_callback_unchecked(coords) ==
  /\ roi_selector = "roi2"
  /\ roi_selector' = None
  /\ roi2_3d' = IF roi1_3d = Absent
                  THEN <<current_slice, coords[3], coords[4], coords[1], coords[2]>>
                  ELSE AdjustedROI2(coords)
  /\ state' = transition_to("ROI_DEFINED")
  /\ last' = Done("roi2_callback", TransitionOutcome("ROI_DEFINED"))
  /\ UNCHANGED <<volume, current_slice, roi1_3d>>
  /\ UnchangedMasks
  /\ UnchangedJobs

\* _roi2_callback(coords): unpacking roi1_3d raises TypeError when ROI1 is
\* unset (line 825); otherwise the adjusted rectangle becomes ROI2 and the
\* handler ends with transition_to(ROI_DEFINED).
roi2_callback(coords) ==
  /\ roi_selector = "roi2"
  /\ roi_selector' = None
  /\ IF roi1_3d = Absent
       THEN /\ UNCHANGED <<state, roi2_3d>>
            /\ last' = Done("roi2_callback", "TypeError")
       ELSE /\ roi2_3d' = AdjustedROI2(coords)
            /\ state' = transition_to("ROI_DEFINED")
            /\ last' = Done("roi2_callback", TransitionOutcome("ROI_DEFINED"))
  /\ UNCHANGED <<volume, current_slice, roi1_3d>>
  /\ UnchangedMasks
  /\ UnchangedJobs

\* Faulty variant of reset_roi: the annotations are kept.
reset_roi_keeps_annotations ==
  /\ state' = transition_to("VOLUME_LOADED")
  /\ last' = Done("reset_roi", TransitionOutcome("VOLUME_LOADED"))
  /\ UNCHANGED <<volume, current_slice, roi_selector, roi1_3d, roi2_3d>>
  /\ UnchangedMasks
  /\ UnchangedJobs

\* _reset_roi: roi_manager.reset(), then transition_to(VOLUME_LOADED).
reset_roi ==
  /\ roi1_3d' = Absent
  /\ roi2_3d' = Absent
  /\ state' = transition_to("VOLUME_LOADED")
  /\ last' = Done("reset_roi", TransitionOutcome("VOLUME_LOADED"))
  /\ UNCHANGED <<volume, current_slice, roi_selector>>
  /\ UnchangedMasks
  /\ UnchangedJobs


\* ------------------------------------------------- handlers: segmentation
\* Faulty variant of start_segmentation: the worker is started whether or
\* not transition_to(SEGMENTING) succeeded.
start_segmentation_unguarded(model_instance, roi_coords) ==
  /\ state' = transition_to("SEGMENTING")
  /\ workers' = workers \cup {Job(njobs + 1, "segmentation", model_instance, roi_coords)}
  /\ njobs' = njobs + 1
  /\ last' = Done("segment_roi", "started")

\* Lines 893-906: transition_to(SEGMENTING), which may raise, and only then
\* the SegmentationWorker is constructed and started.
start_segmentation(model_instance, roi_coords) ==
  /\ state' = transition_to("SEGMENTING")
  /\ IF CanTransition(state, "SEGMENTING")
       THEN /\ workers' = workers \cup
                 {Job(njobs + 1, "segmentation", model_instance, roi_coords)}
            /\ njobs' = njobs + 1
            /\ last' = Done("segment_roi", "started")
       ELSE /\ UNCHANGED <<workers, njobs>>
            /\ last' = Done("segment_roi", "IllegalTransitionError")

\* Faulty variant of segment_roi: the test of model_instance (lines 883-885)
\* is missing.
segment_roi_without_model ==
  /\ njobs < MaxJobs
  /\ IF ~has_both_rois
       THEN /\ UNCHANGED <<state, workers, njobs>>
            /\ last' = Done("segment_roi", "warning")
       ELSE IF volume = Absent
       THEN /\ UNCHANGED <<state, workers, njobs>>
            /\ last' = Done("segment_roi", "AttributeError")
       ELSE IF ~CombinedROIValid(get_combined_roi_coords(volume))
       THEN /\ UNCHANGED <<state, workers, njobs>>
            /\ last' = Done("segment_roi", "ValueError")
       ELSE \E model_instance \in Organs \cup {None} :
              IF model_instance = None
                THEN /\ state' = transition_to("SEGMENTING")
                     /\ workers' = workers \cup
                          {Job(njobs + 1, "segmentation", None,
                               get_combined_roi_coords(volume))}
                     /\ njobs' = njobs + 1
                     /\ last' = Done("segment_roi", "ModelUnavailable")
                ELSE start_segmentation(model_instance, get_combined_roi_coords(volume))
  /\ UNCHANGED <<volume, queue, nprogress, completed>>
  /\ UnchangedROI
  /\ UnchangedMasks

\* _segment_roi: rejected without both ROIs, with a degenerate combined ROI
\* or without a model instance; otherwise transition_to(SEGMENTING) and a
\* SegmentationWorker is started for the chosen model's organ.
segment_roi ==
  /\ njobs < MaxJobs
  /\ IF ~has_both_rois
       THEN /\ UNCHANGED <<state, workers, njobs>>
            /\ last' = Done("segment_roi", "warning")
       ELSE IF volume = Absent
       THEN /\ UNCHANGED <<state, workers, njobs>>
            /\ last' = Done("segment_roi", "AttributeError")
       ELSE IF ~CombinedROIValid(get_combined_roi_coords(volume))
       THEN /\ UNCHANGED <<state, workers, njobs>>
            /\ last' = Done("segment_roi", "ValueError")
       ELSE \E model_instance \in Organs \cup {None} :
              IF model_instance = None
                THEN /\ UNCHANGED <<state, workers, njobs>>
                     /\ last' = Done("segment_roi", "ModelUnavailable")
                ELSE start_segmentation(model_instance, get_combined_roi_coords(volume))
  /\ UNCHANGED <<volume, queue, nprogress, completed>>
  /\ UnchangedROI
  /\ UnchangedMasks

\* _on_segmentation_progress, connected to the progress signal of both the
\* segmentation and the refinement worker: display only.
on_segmentation_progress ==
  /\ queue # <<>>
  /\ Head(queue).sig = "progress"
  /\ Consume
  /\ last' = Done("on_segmentation_progress", "ok")
  /\ UNCHANGED <<state, volume>>
  /\ UnchangedROI
  /\ UnchangedMasks

\* _add_to_history, connected to the log signal of the segmentation worker:
\* display only.
add_to_history ==
  /\ queue # <<>>
  /\ Head(queue).sig = "log"
  /\ Consume
  /\ last' = Done("add_to_history", "ok")
  /\ UNCHANGED <<state, volume>>
  /\ UnchangedROI
  /\ UnchangedMasks

\* The record appended to operation_history (lines 924-929, 1023-1028).
OperationRecord(type, organ_key) == [type |-> type, organ |-> organ_key]

\* Faulty variant of RecordOperation: the new record is put in front.
RecordOperation_prepending(type, organ_key) ==
  <<OperationRecord(type, organ_key)>> \o operation_history

\* Faulty variant of RecordOperation: the new record replaces the history.
RecordOperation_replacing(type, organ_key) == <<OperationRecord(type, organ_key)>>

\* operation_history after the append at lines 924-929 (segmentation) or
\* 1023-1028 (refinement).
RecordOperation(type, organ_key) ==
  Append(operation_history, OperationRecord(type, organ_key))

\* Faulty variant of SegmentationMask: line 918 is missing.
SegmentationMask_missing(organ_key, mask) == masks

\* Faulty variant of SegmentationMask: the mask becomes the current mask of
\* every organ that has one.
SegmentationMask_every_organ(organ_key, mask) ==
  [o \in Organs |-> IF o = organ_key \/ masks[o] # None THEN mask ELSE masks[o]]

\* Faulty variant of SegmentationBase: line 917 is missing.
SegmentationBase_missing(organ_key, mask) == base_masks

\* Faulty variant of SegmentationBase: the mask becomes the base mask of
\* every organ.
SegmentationBase_every_organ(organ_key, mask) == [o \in Organs |-> mask]

\* Lines 917-918: base_masks[organ_key] and masks[organ_key] are two copies
\* of mask, two arrays.
SegmentationSameArray(organ_key) == [same_array EXCEPT ![organ_key] = FALSE]

\* base_masks after line 917, masks after line 918.
SegmentationBase(organ_key, mask) == [base_masks EXCEPT ![organ_key] = mask]
SegmentationMask(organ_key, mask) == [masks EXCEPT ![organ_key] = mask]

\* _on_segmentation_finished(mask, stats): both masks of stats.organ_key are
\* copies of mask, the organ is selected in the combo, a record is appended,
\* then transition_to(MASK_READY).
on_segmentation_finished ==
  /\ Delivered("segmentation", "finished")
  /\ Consume
  /\ LET organ_key == Head(queue).organ
         mask == Head(queue).mask
     IN  /\ base_masks' = SegmentationBase(organ_key, mask)
         /\ masks' = SegmentationMask(organ_key, mask)
         /\ organ_combo' = organ_key
         /\ segmented' = [segmented EXCEPT ![organ_key] = mask]
         /\ same_array' = SegmentationSameArray(organ_key)
         /\ operation_history' = RecordOperation("segmentation", organ_key)
  /\ state' = transition_to("MASK_READY")
  /\ last' = Done("on_segmentation_finished", TransitionOutcome("MASK_READY"))
  /\ UNCHANGED volume
  /\ UnchangedROI

\* Faulty variant of on_segmentation_error: it ends like the refinement
\* error handler, with transition_to(MASK_READY).
on_segmentation_error_to_mask_ready ==
  /\ Delivered("segmentation", "error")
  /\ Consume
  /\ state' = transition_to("MASK_READY")
  /\ last' = Done("on_segmentation_error", TransitionOutcome("MASK_READY"))
  /\ UNCHANGED volume
  /\ UnchangedROI
  /\ UnchangedMasks

\* Faulty variant of on_segmentation_error: the ROI annotations are cleared
\* on the way back to ROI_DEFINED.
on_segmentation_error_clearing_rois ==
  /\ Delivered("segmentation", "error")
  /\ Consume
  /\ state' = transition_to("ROI_DEFINED")
  /\ last' = Done("on_segmentation_error", TransitionOutcome("ROI_DEFINED"))
  /\ roi1_3d' = Absent
  /\ roi2_3d' = Absent
  /\ UNCHANGED <<volume, current_slice, roi_selector>>
  /\ UnchangedMasks

\* Faulty variant of on_segmentation_error: the error is shown, the state
\* stays as it is.
on_segmentation_error_without_transition ==
  /\ Delivered("segmentation", "error")
  /\ Consume
  /\ last' = Done("on_segmentation_error", "ok")
  /\ UNCHANGED <<state, volume>>
  /\ UnchangedROI
  /\ UnchangedMasks

\* _on_segmentation_error: transition_to(ROI_DEFINED), then the error is
\* shown and written to the on-screen log (history_text, line 967); masks
\* and operation_history are not touched.
on_segmentation_error ==
  /\ Delivered("segmentation", "error")
  /\ Consume
  /\ state' = transition_to("ROI_DEFINED")
  /\ last' = Done("on_segmentation_error", TransitionOutcome("ROI_DEFINED"))
  /\ UNCHANGED volume
  /\ UnchangedROI
  /\ UnchangedMasks

\* --------------------------------------------------- handlers: refinement
\* The operator picks another organ of the combo (its items are the organs
\* added at lines 920-921).
select_organ ==
  /\ \E organ_key \in Organs :
       /\ base_masks[organ_key] # None
       /\ organ_combo' = organ_key
  /\ last' = Done("select_organ", "ok")
  /\ UNCHANGED <<state, volume, base_masks, masks, operation_history, segmented,
                 same_array>>
  /\ UnchangedROI
  /\ UnchangedJobs

\* Faulty variant of RefinementInput: the worker is given the current mask.
RefinementInput_current(organ_key) == masks[organ_key]

\* The mask the MaskRefinementWorker is constructed on (line 1011).
RefinementInput(organ_key) == base_masks[organ_key]

\* Faulty variant of start_refinement: the worker is started whether or not
\* transition_to(REFINING) succeeded.
start_refinement_unguarded(organ_key) ==
  /\ state' = transition_to("REFINING")
  /\ workers' = workers \cup
       {Job(njobs + 1, "refinement", organ_key, RefinementInput(organ_key))}
  /\ njobs' = njobs + 1
  /\ last' = Done("apply_mask_refinement", "started")

\* Lines 1006-1016: transition_to(REFINING), which may raise, and only then
\* the MaskRefinementWorker is constructed on base_masks[organ_key] and
\* started.
start_refinement(organ_key) ==
  /\ state' = transition_to("REFINING")
  /\ IF CanTransition(state, "REFINING")
       THEN /\ workers' = workers \cup
                 {Job(njobs + 1, "refinement", organ_key, RefinementInput(organ_key))}
            /\ njobs' = njobs + 1
            /\ last' = Done("apply_mask_refinement", "started")
       ELSE /\ UNCHANGED <<workers, njobs>>
            /\ last' = Done("apply_mask_refinement", "IllegalTransitionError")

\* _apply_mask_refinement: rejected when the selected organ has no base
\* mask; otherwise transition_to(REFINING) and a MaskRefinementWorker is
\* started on base_masks[organ_key].
apply_mask_refinement ==
  /\ njobs < MaxJobs
  /\ LET organ_key == organ_combo
     IN  IF organ_key \notin Organs \/ base_masks[organ_key] = None
           THEN /\ UNCHANGED <<state, workers, njobs>>
                /\ last' = Done("apply_mask_refinement", "warning")
           ELSE start_refinement(organ_key)
  /\ UNCHANGED <<volume, queue, nprogress, completed>>
  /\ UnchangedROI
  /\ UnchangedMasks

\* Faulty variant of RefinementMask: the result is stored for every organ.
RefinementMask_every_organ(organ_key, mask) == [o \in Organs |-> mask]

\* masks after line 1021.
RefinementMask(organ_key, mask) == [masks EXCEPT ![organ_key] = mask]

\* Line 1021 stores the worker's result without copying it; the job was
\* given base_masks[organ_key] itself (line 1011) and yields a mask of its
\* own (spec.md 4.3 and 6), so the two entries are two arrays.
RefinementSameArray(organ_key) == [same_array EXCEPT ![organ_key] = FALSE]

\* The body of _on_refinement_finished(mask, stats) for stats.organ_key =
\* organ_key: masks[organ_key] = mask, a record is appended, then
\* transition_to(MASK_READY).
refinement_finished(mask, organ_key) ==
  /\ masks' = RefinementMask(organ_key, mask)
  /\ operation_history' = RecordOperation("refinement", organ_key)
  /\ state' = transition_to("MASK_READY")
  /\ same_array' = RefinementSameArray(organ_key)
  /\ last' = Done("on_refinement_finished", TransitionOutcome("MASK_READY"))
  /\ UNCHANGED <<volume, base_masks, organ_combo, segmented>>
  /\ UnchangedROI

\* Faulty variant of on_refinement_finished: the result goes to the organ
\* selected in the combo when the signal is handled.
on_refinement_finished_for_selected_organ ==
  /\ Delivered("refinement", "finished")
  /\ Consume
  /\ refinement_finished(Head(queue).mask, organ_combo)

\* _on_refinement_finished as the slot of the worker's finished signal.
on_refinement_finished ==
  /\ Delivered("refinement", "finished")
  /\ Consume
  /\ refinement_finished(Head(queue).mask, Head(queue).organ)

\* Faulty variant of on_refinement_error: it ends like the segmentation
\* error handler, with transition_to(ROI_DEFINED).
on_refinement_error_to_roi_defined ==
  /\ Delivered("refinement", "error")
  /\ Consume
  /\ state' = transition_to("ROI_DEFINED")
  /\ last' = Done("on_refinement_error", TransitionOutcome("ROI_DEFINED"))
  /\ UNCHANGED volume
  /\ UnchangedROI
  /\ UnchangedMasks

\* Faulty variant of on_refinement_error: the failure is appended to
\* operation_history.
on_refinement_error_recorded ==
  /\ Delivered("refinement", "error")
  /\ Consume
  /\ state' = transition_to("MASK_READY")
  /\ operation_history' = RecordOperation("refinement", Head(queue).organ)
  /\ last' = Done("on_refinement_error", TransitionOutcome("MASK_READY"))
  /\ UNCHANGED <<volume, base_masks, masks, organ_combo, segmented, same_array>>
  /\ UnchangedROI

\* _on_refinement_error: transition_to(MASK_READY), then the error is shown
\* and written to the on-screen log (history_text, line 1059).
on_refinement_error ==
  /\ Delivered("refinement", "error")
  /\ Consume
  /\ state' = transition_to("MASK_READY")
  /\ last' = Done("on_refinement_error", TransitionOutcome("MASK_READY"))
  /\ UNCHANGED volume
  /\ UnchangedROI
  /\ UnchangedMasks

\* Faulty variant of ResetMask: the current mask is left as it is.
ResetMask_missing(organ_key) == masks

\* Faulty variant of ResetSameArray: the base mask itself is assigned, not
\* a copy of it.
ResetSameArray_without_copy(organ_key) == [same_array EXCEPT ![organ_key] = TRUE]

\* Line 1065: masks[organ_key] is a copy of the base mask, a second array.
ResetSameArray(organ_key) == [same_array EXCEPT ![organ_key] = FALSE]

\* masks after line 1065.
ResetMask(organ_key) == [masks EXCEPT ![organ_key] = base_masks[organ_key]]

\* _reset_to_base_mask: masks[organ] becomes a copy of base_masks[organ] for
\* the selected organ, if it has a base mask; otherwise nothing happens.
reset_to_base_mask ==
  /\ LET organ_key == organ_combo
     IN  IF organ_key \in Organs /\ base_masks[organ_key] # None
           THEN /\ masks' = ResetMask(organ_key)
                /\ same_array' = ResetSameArray(organ_key)
                /\ last' = Done("reset_to_base_mask", "ok")
           ELSE /\ UNCHANGED <<masks, same_array>>
                /\ last' = Done("reset_to_base_mask", "ignored")
  /\ UNCHANGED <<state, volume, base_masks, organ_combo, operation_history, segmented>>
  /\ UnchangedROI
  /\ UnchangedJobs

\* ---------------------------------------------------------------- workers
\* Faulty variant of worker_signal: a worker goes on emitting after its
\* terminal signal.
worker_signal_after_end(limit) ==
  \E w \in workers :
    /\ w.kind # "load"
    /\ nprogress < limit
    /\ \E sig \in (IF w.kind = "segmentation" THEN {"progress", "log"} ELSE {"progress"}) :
         queue' = Append(queue, Event(w, sig, None))
    /\ nprogress' = nprogress + 1
    /\ UNCHANGED completed
    /\ UNCHANGED <<state, volume, workers, njobs, last>>
    /\ UnchangedROI
    /\ UnchangedMasks

\* A running worker emits a progress signal (segmentation and refinement
\* workers) or a log line (segmentation worker), at most limit signals in a
\* behaviour; the signal is queued to the GUI thread (spec.md 4.3 and 5).
worker_signal(limit) ==
  \E w \in workers :
    /\ ~w.done
    /\ w.kind # "load"
    /\ nprogress < limit
    /\ \E sig \in (IF w.kind = "segmentation" THEN {"progress", "log"} ELSE {"progress"}) :
         queue' = Append(queue, Event(w, sig, None))
    /\ nprogress' = nprogress + 1
    /\ UNCHANGED completed
    /\ UNCHANGED <<state, volume, workers, njobs, last>>
    /\ UnchangedROI
    /\ UnchangedMasks

\* The progress/log signals of the whole-workflow specifications.
worker_progress == worker_signal(MaxProgress)

\* A running worker ends with its finished signal: a load worker with the
\* volume, the others with a mask and stats naming the job's organ
\* (spec.md 4.3 and 6).
worker_finished ==
  \E w \in workers :
    /\ ~w.done
    /\ \E mask \in (IF w.kind = "load" THEN {None} ELSE MaskVals) :
         queue' = Append(queue, Event(w, "finished", mask))
    /\ workers' = (workers \ {w}) \cup {[w EXCEPT !.done = TRUE]}
    /\ UNCHANGED <<state, volume, njobs, nprogress, completed, last>>
    /\ UnchangedROI
    /\ UnchangedMasks

\* A running worker ends with its error signal.
worker_error ==
  \E w \in workers :
    /\ ~w.done
    /\ queue' = Append(queue, Event(w, "error", None))
    /\ workers' = (workers \ {w}) \cup {[w EXCEPT !.done = TRUE]}
    /\ UNCHANGED <<state, volume, njobs, nprogress, completed, last>>
    /\ UnchangedROI
    /\ UnchangedMasks

\* --------------------------------------------------------- specifications
\* The state after LungSegmenterGUI.__init__ (lines 45-100).
Init ==
  /\ state = "INITIAL"
  /\ volume = Absent
  /\ current_slice = 0
  /\ roi_selector = None
  /\ roi1_3d = Absent
  /\ roi2_3d = Absent
  /\ base_masks = [o \in Organs |-> None]
  /\ masks = [o \in Organs |-> None]
  /\ organ_combo = ""
  /\ operation_history = <<>>
  /\ workers = {}
  /\ queue = <<>>
  /\ njobs = 0
  /\ nprogress = 0
  /\ completed = <<>>
  /\ segmented = [o \in Organs |-> None]
  /\ same_array = [o \in Organs |-> FALSE]
  /\ last = Done("init", "ok")

\* Signals and canvas callbacks reach their handlers in every state.
Events ==
  \/ on_load_finished
  \/ on_load_error
  \/ on_segmentation_progress
  \/ add_to_history
  \/ on_segmentation_finished
  \/ on_segmentation_error
  \/ on_refinement_finished
  \/ on_refinement_error
  \/ worker_progress
  \/ worker_finished
  \/ worker_error
  \/ \E coords \in RawRects : roi1_callback(coords)
  \/ \E coords \in RawRects : roi2_callback(coords)
  \/ \E value \in 0 .. (SliceCount - 1) : on_slice_changed(value)
  \/ select_organ

\* The operator's buttons: a click reaches its handler only while the
\* button is enabled in the current state.
click_load == WidgetEnabled("btn_load") /\ load_dicom
click_draw_roi1 == WidgetEnabled("btn_draw_roi1") /\ draw_roi1
click_draw_roi2 == WidgetEnabled("btn_draw_roi2") /\ draw_roi2
click_reset_roi == WidgetEnabled("btn_reset_roi") /\ reset_roi
click_segment == WidgetEnabled("btn_segment") /\ segment_roi
click_apply_refinement == WidgetEnabled("btn_apply_refinement") /\ apply_mask_refinement
click_reset_mask == WidgetEnabled("btn_reset_mask") /\ reset_to_base_mask

Next ==
  \/ click_load
  \/ click_draw_roi1
  \/ click_draw_roi2
  \/ click_reset_roi
  \/ click_segment
  \/ click_apply_refinement
  \/ click_reset_mask
  \/ Events

Spec == Init /\ [][Next]_vars

\* The user interface, and besides it the two dispatch operations called
\* directly, whatever the capability set enables (spec.md 4.3 and 8: the
\* direct reentrancy test, bypassing UI gating).
NextDirect ==
  \/ segment_roi
  \/ apply_mask_refinement
  \/ Next

SpecDirect == Init /\ [][NextDirect]_vars


\* The jobs of one volume in detail: the window after a volume was loaded
\* (one worker so far) and ROI 1 and ROI 2 were drawn on slices 0 and 1, from
\* where segmentations and refinements run with up to MaxSignals progress/log
\* signals.
InitJobs ==
  /\ state = "ROI_DEFINED"
  /\ volume = Shape
  /\ current_slice = 1
  /\ roi_selector = None
  /\ roi1_3d = <<0, 0, 2, 0, 2>>
  /\ roi2_3d = <<1, 0, 2, 0, 2>>
  /\ base_masks = [o \in Organs |-> None]
  /\ masks = [o \in Organs |-> None]
  /\ organ_combo = ""
  /\ operation_history = <<>>
  /\ workers = {}
  /\ queue = <<>>
  /\ njobs = 1
  /\ nprogress = 0
  /\ completed = <<>>
  /\ segmented = [o \in Organs |-> None]
  /\ same_array = [o \in Organs |-> FALSE]
  /\ last = Done("roi2_callback", "ok")

worker_signals == worker_signal(MaxSignals)

NextJobs ==
  \/ click_segment
  \/ click_apply_refinement
  \/ click_reset_mask
  \/ select_organ
  \/ worker_signals
  \/ worker_finished
  \/ worker_error
  \/ on_segmentation_progress
  \/ add_to_history
  \/ on_segmentation_finished
  \/ on_segmentation_error
  \/ on_refinement_finished
  \/ on_refinement_error

SpecJobs == InitJobs /\ [][NextJobs]_vars

\* The ROI geometry in detail: the window after a volume of one of ROIShapes
\* was loaded (one worker so far), from where the operator moves the slider,
\* draws and resets ROIs and asks for a segmentation.
ROIShapes == {<<2, 4, 2>>, <<2, 2, 3>>, <<100, 512, 512>>}

\* The rectangles (x_min, x_max, y_min, y_max) the ROISelector reports on a
\* slice of a volume of this shape: every rectangle inside a small slice; on
\* the large one a whole-lung rectangle, one centred at (300, 300), one in a
\* corner and one of no width.
ROIRects(shape) ==
  IF shape = <<100, 512, 512>>
    THEN {<<100, 400, 100, 400>>, <<250, 350, 250, 350>>, <<500, 511, 0, 10>>,
          <<200, 200, 100, 400>>}
    ELSE LET Spans(n) == {p \in (0 .. (n - 1)) \X (0 .. (n - 1)) : p[1] <= p[2]}
         IN  {<<x[1], x[2], y[1], y[2]>> : x \in Spans(shape[3]), y \in Spans(shape[2])}

\* The slider positions visited on a volume of this shape.
ROISlices(shape) ==
  IF shape = <<100, 512, 512>> THEN {40, 60} ELSE 0 .. (shape[1] - 1)

InitROI ==
  /\ state = "VOLUME_LOADED"
  /\ volume \in ROIShapes
  /\ current_slice = volume[1] \div 2
  /\ roi_selector = None
  /\ roi1_3d = Absent
  /\ roi2_3d = Absent
  /\ base_masks = [o \in Organs |-> None]
  /\ masks = [o \in Organs |-> None]
  /\ organ_combo = ""
  /\ operation_history = <<>>
  /\ workers = {}
  /\ queue = <<>>
  /\ njobs = 1
  /\ nprogress = 0
  /\ completed = <<>>
  /\ segmented = [o \in Organs |-> None]
  /\ same_array = [o \in Organs |-> FALSE]
  /\ last = Done("on_load_finished", "ok")

slider_moved == \E value \in ROISlices(volume) : on_slice_changed(value)
roi1_drawn ==
  /\ roi_selector = "roi1"
  /\ \E coords \in ROIRects(volume) : roi1_callback(coords)
roi2_drawn ==
  /\ roi_selector = "roi2"
  /\ \E coords \in ROIRects(volume) : roi2_callback(coords)

NextROI ==
  \/ slider_moved
  \/ click_draw_roi1
  \/ roi1_drawn
  \/ click_draw_roi2
  \/ roi2_drawn
  \/ click_reset_roi
  \/ click_segment

SpecROI == InitROI /\ [][NextROI]_vars

\* The mask store called directly: besides the jobs started from the window
\* of InitJobs, _reset_to_base_mask is called in any state and
\* _on_refinement_finished is called with any organ and mask, whatever the
\* capability set enables and whatever worker is running (spec.md 4.4,
\* reset_to_base and record_refinement).
record_refinement ==
  /\ Len(operation_history) < MaxRecords
  /\ \E organ_key \in Organs, mask \in MaskVals : refinement_finished(mask, organ_key)
  /\ UnchangedJobs

NextStore ==
  \/ record_refinement
  \/ reset_to_base_mask
  \/ select_organ
  \/ click_segment
  \/ click_apply_refinement
  \/ worker_finished
  \/ worker_error
  \/ on_segmentation_finished
  \/ on_segmentation_error
  \/ on_refinement_finished
  \/ on_refinement_error

SpecStore == InitJobs /\ [][NextStore]_vars

\* Refinements in detail: the window after both organs were segmented on one
\* volume, the liver last; njobs numbers the workers started from here on.
InitRefine ==
  /\ state = "MASK_READY"
  /\ volume = Shape
  /\ current_slice = 1
  /\ roi_selector = None
  /\ roi1_3d = <<0, 0, 2, 0, 2>>
  /\ roi2_3d = <<1, 0, 2, 0, 2>>
  /\ base_masks = [o \in Organs |-> "m1"]
  /\ masks = [o \in Organs |-> "m1"]
  /\ organ_combo = "liver"
  /\ operation_history = <<OperationRecord("segmentation", "lung"),
                           OperationRecord("segmentation", "liver")>>
  /\ workers = {}
  /\ queue = <<>>
  /\ njobs = 0
  /\ nprogress = 0
  /\ completed = <<[kind |-> "segmentation", organ |-> "lung"],
                   [kind |-> "segmentation", organ |-> "liver"]>>
  /\ segmented = [o \in Organs |-> "m1"]
  /\ same_array = [o \in Organs |-> FALSE]
  /\ last = Done("on_segmentation_finished", "ok")

NextRefine ==
  \/ click_apply_refinement
  \/ click_reset_mask
  \/ select_organ
  \/ worker_signals
  \/ worker_finished
  \/ worker_error
  \/ on_segmentation_progress
  \/ on_refinement_finished
  \/ on_refinement_error

SpecRefine == InitRefine /\ [][NextRefine]_vars

\* ---------------------------------------------------------------- start-up
\* What main() can find at config.yaml: no file, a file that is not YAML,
\* a file with no document in it, a file with every section of the default.
ConfigFiles == {"missing", "unparseable", "empty", "complete"}

\* _get_default_config: the built-in configuration has every section.
get_default_config == "default"

\* _load_config: yaml.safe_load of the opened file; only FileNotFoundError
\* is caught, and answered with a warning box and the built-in
\* configuration. A file that is not YAML raises YAMLError out of the
\* method; a file with no document makes safe_load return None.
load_config(config_file) ==
  CASE config_file = "missing" ->
         [raised |-> None, config |-> get_default_config, warning |-> TRUE]
    [] config_file = "unparseable" ->
         [raised |-> "YAMLError", config |-> None, warning |-> FALSE]
    [] config_file = "empty" ->
         [raised |-> None, config |-> None, warning |-> FALSE]
    [] config_file = "complete" ->
         [raised |-> None, config |-> "file", warning |-> FALSE]

\* LungSegmenterGUI.__init__: the configuration is loaded first, then
\* subscripted (config['display'][...]); None is not subscriptable.
window_init(config_file) ==
  LET loaded == load_config(config_file) IN
    IF loaded.raised # None THEN loaded
    ELSE IF loaded.config = None THEN [loaded EXCEPT !.raised = "TypeError"]
    ELSE loaded

\* main(): the window is constructed and shown inside try/except Exception;
\* an exception prints the fatal error and returns 1, otherwise the event
\* loop runs with the window in its initial state.
main ==
  /\ state = None
  /\ last = Done("exec", "ok")
  /\ \E config_file \in ConfigFiles :
       LET made == window_init(config_file) IN
         /\ state' = IF made.raised = None THEN "INITIAL" ELSE None
         /\ last' = [op |-> "main",
                     outcome |-> IF made.raised = None THEN "started" ELSE "fatal",
                     config_file |-> config_file,
                     config |-> made.config,
                     raised |-> made.raised,
                     warning |-> made.warning]
  /\ UNCHANGED <<volume, current_slice, roi_selector, roi1_3d, roi2_3d, base_masks,
                 masks, organ_combo, operation_history, workers, queue, njobs,
                 nprogress, completed, segmented, same_array>>

\* The process before main() has constructed the window.
InitStartup ==
  /\ state = None
  /\ volume = Absent
  /\ current_slice = 0
  /\ roi_selector = None
  /\ roi1_3d = Absent
  /\ roi2_3d = Absent
  /\ base_masks = [o \in Organs |-> None]
  /\ masks = [o \in Organs |-> None]
  /\ organ_combo = ""
  /\ operation_history = <<>>
  /\ workers = {}
  /\ queue = <<>>
  /\ njobs = 0
  /\ nprogress = 0
  /\ completed = <<>>
  /\ segmented = [o \in Organs |-> None]
  /\ same_array = [o \in Organs |-> FALSE]
  /\ last = Done("exec", "ok")

\* The event loop runs only once the window exists.
exec_ == state # None /\ Next

NextStartup == main \/ exec_

SpecStartup == InitStartup /\ [][NextStartup]_vars

\* ---------------------------------------------------------------- progress
\* The event loop hands the signal at the head of the queue to its slot.
Deliver ==
  \/ on_load_finished
  \/ on_load_error
  \/ on_segmentation_progress
  \/ add_to_history
  \/ on_segmentation_finished
  \/ on_segmentation_error
  \/ on_refinement_finished
  \/ on_refinement_error

\* A running worker's run() ends, with one of its two terminal signals.
Terminate == worker_finished \/ worker_error

\* The whole workflow where every started worker ends and every queued
\* signal is delivered.
SpecLive == Spec /\ WF_queue(Terminate) /\ WF_queue(Deliver)

\* An operator who keeps working towards the next segmentation: loads when
\* nothing is loaded, draws ROI 1, arms and draws a valid ROI 2, and resets
\* the ROI once a mask is ready.
OperatorProceeds ==
  /\ SF_njobs(click_load)
  /\ SF_roi_selector(click_draw_roi1)
  /\ SF_roi_selector(\E coords \in RawRects : roi1_callback(coords))
  /\ SF_roi_selector(click_draw_roi2 /\ roi_selector' = "roi2")
  /\ SF_state((\E coords \in RawRects : roi2_callback(coords)) /\ state' = "ROI_DEFINED")
  /\ SF_state(click_reset_roi /\ state = "MASK_READY")

\* ---------------------------------------------------------- pure functions
\* A Python float: a number or NaN.
Float(v) == [nan |-> FALSE, v |-> v]
NaN == [nan |-> TRUE, v |-> 0]

\* s <= 0 for a float s: every comparison with NaN is False.
LeqZero(s) == ~s.nan /\ s.v <= 0

\* A volume in ml, exact to the cubic mm: mm3 / 1000 as whole ml and the
\* remaining cubic mm.
Millilitres(mm3) == [ml |-> mm3 \div 1000, mm3 |-> mm3 % 1000]

\* Voxel counts of the masks given to get_mask_statistics.
VoxelCounts == {0, 1, 999, 500000}

\* Spacings (x, y, z) in whole mm.
Spacings == (1 .. MaxSpacing) \X (1 .. MaxSpacing) \X (1 .. MaxSpacing)

\* Faulty variant of get_mask_statistics: the volume stays in cubic mm.
get_mask_statistics_in_mm3(voxel_count, spacing) ==
  [voxel_count |-> voxel_count,
   volume_ml |-> [ml |-> voxel_count * spacing[1] * spacing[2] * spacing[3], mm3 |-> 0]]

\* get_mask_statistics(mask, spacing) of core.data_io, for a mask with
\* voxel_count voxels set: the voxel's volume in cubic mm times the count,
\* in ml (spec.md 4.4 and 6).
get_mask_statistics(voxel_count, spacing) ==
  LET voxel_mm3 == spacing[1] * spacing[2] * spacing[3]
      volume_mm3 == voxel_count * voxel_mm3
  IN [voxel_count |-> voxel_count, volume_ml |-> Millilitres(volume_mm3)]

\* What validate_input can be given as volume: an ndarray of some number of
\* dimensions, or an object that is not an ndarray.
Volumes ==
  {[is_ndarray |-> FALSE, ndim |-> 0]} \cup
  {[is_ndarray |-> TRUE, ndim |-> n] : n \in 1 .. MaxNdim}

\* Tuples of floats of length n.
FloatTuples(n) == [1 .. n -> {Float(-1), Float(0), Float(1), NaN}]

\* What validate_input can be given as spacing: a tuple of floats, or None
\* (self.spacing before a volume is loaded), which has no len().
SpacingArgs ==
  {[has_len |-> FALSE, items |-> <<>>]} \cup
  {[has_len |-> TRUE, items |-> t] : t \in UNION {FloatTuples(n) : n \in 0 .. MaxSpacingLen}}

\* BaseSegmenter.validate_input: how the call ends.
validate_input(vol, spacing) ==
  IF ~vol.is_ndarray THEN "ValueError"
  ELSE IF vol.ndim # 3 THEN "ValueError"
  ELSE IF ~spacing.has_len THEN "TypeError"
  ELSE IF Len(spacing.items) # 3 THEN "ValueError"
  ELSE IF \E i \in 1 .. Len(spacing.items) : LeqZero(spacing.items[i]) THEN "ValueError"
  ELSE "True"

\* Shapes (Z, Y, X) of the volumes given to preprocess_volume.
PreprocessShapes == {<<2, 2, 3>>, <<1, 3, 2>>}

\* The ROIs (z0, z1, y0, y1, x0, x1) inside a volume of this shape, as
\* get_combined_roi_coords produces them: both ends are indices of the
\* volume, the first not after the second.
PreprocessROIs(shape) ==
  {r \in (0 .. (shape[1] - 1)) \X (0 .. (shape[1] - 1)) \X
         (0 .. (shape[2] - 1)) \X (0 .. (shape[2] - 1)) \X
         (0 .. (shape[3] - 1)) \X (0 .. (shape[3] - 1)) :
     r[1] <= r[2] /\ r[3] <= r[4] /\ r[5] <= r[6]}

\* Faulty variant of Slice: the stop index is taken for the last index.
Slice_to_stop_inclusive(n, start, stop) ==
  [first |-> Min(start, n), extent |-> Max(0, Min(stop + 1, n) - Min(start, n))]

\* A basic slice start:stop, both non-negative, of an axis of length n: the
\* indices from start up to stop - 1, cut off at the end of the axis.
Slice(n, start, stop) ==
  [first |-> Min(start, n), extent |-> Max(0, Min(stop, n) - Min(start, n))]

\* BaseSegmenter.preprocess_volume on a volume of this shape: with an ROI the
\* slice [z0:z1+1, y0:y1+1, x0:x1+1], without one the whole volume; either
\* way .copy() of it, an array with memory of its own. Nothing is assigned
\* to volume.
preprocess_volume(shape, roi_coords) ==
  LET z == IF roi_coords = Absent THEN Slice(shape[1], 0, shape[1])
           ELSE Slice(shape[1], roi_coords[1], roi_coords[2] + 1)
      y == IF roi_coords = Absent THEN Slice(shape[2], 0, shape[2])
           ELSE Slice(shape[2], roi_coords[3], roi_coords[4] + 1)
      x == IF roi_coords = Absent THEN Slice(shape[3], 0, shape[3])
           ELSE Slice(shape[3], roi_coords[5], roi_coords[6] + 1)
  IN  [first |-> <<z.first, y.first, x.first>>,
       shape |-> <<z.extent, y.extent, x.extent>>,
       shares_memory |-> FALSE,
       volume_written |-> FALSE]

\* preprocess_volume is called on a volume, with or without an ROI.
call_preprocess_volume ==
  /\ last.op = "idle"
  /\ \E shape \in PreprocessShapes :
       \E roi_coords \in PreprocessROIs(shape) \cup {Absent} :
         last' = [op |-> "preprocess_volume", outcome |-> "ok",
                  shape |-> shape, roi_coords |-> roi_coords,
                  result |-> preprocess_volume(shape, roi_coords)]
  /\ UNCHANGED <<state, volume, queue, workers, njobs, nprogress, completed>>
  /\ UnchangedROI
  /\ UnchangedMasks

\* get_mask_statistics is called on a mask.
call_get_mask_statistics ==
  /\ last.op = "idle"
  /\ \E voxel_count \in VoxelCounts, spacing \in Spacings :
       last' = [op |-> "get_mask_statistics", outcome |-> "ok",
                voxel_count |-> voxel_count, spacing |-> spacing,
                stats |-> get_mask_statistics(voxel_count, spacing)]
  /\ UNCHANGED <<state, volume, queue, workers, njobs, nprogress, completed>>
  /\ UnchangedROI
  /\ UnchangedMasks

\* validate_input is called on a volume and a spacing.
call_validate_input ==
  /\ last.op = "idle"
  /\ \E vol \in Volumes, spacing \in SpacingArgs :
       last' = [op |-> "validate_input", outcome |-> validate_input(vol, spacing),
                vol |-> vol, spacing |-> spacing]
  /\ UNCHANGED <<state, volume, queue, workers, njobs, nprogress, completed>>
  /\ UnchangedROI
  /\ UnchangedMasks

\* No call has been made yet.
InitCalls ==
  /\ state = "INITIAL"
  /\ volume = Absent
  /\ current_slice = 0
  /\ roi_selector = None
  /\ roi1_3d = Absent
  /\ roi2_3d = Absent
  /\ base_masks = [o \in Organs |-> None]
  /\ masks = [o \in Organs |-> None]
  /\ organ_combo = ""
  /\ operation_history = <<>>
  /\ workers = {}
  /\ queue = <<>>
  /\ njobs = 0
  /\ nprogress = 0
  /\ completed = <<>>
  /\ segmented = [o \in Organs |-> None]
  /\ same_array = [o \in Organs |-> FALSE]
  /\ last = Done("idle", "ok")

NextCalls == call_get_mask_statistics \/ call_validate_input \/ call_preprocess_volume

SpecCalls == InitCalls /\ [][NextCalls]_vars

\* ------------------------------------------------------------- properties
\* How a dispatch handler ends when it starts no worker.
Rejected ==
  {"warning", "AttributeError", "ValueError", "ModelUnavailable", "IllegalTransitionError"}

\* One of the two dispatch handlers runs.
Dispatch == segment_roi \/ apply_mask_refinement

\* The worker whose signal is at the head of the queue.
HeadJob == CHOOSE w \in workers : w.id = Head(queue).job

\* C1: a segmentation or refinement dispatched while a job is active (its
\* terminal signal not yet handled) is refused: no worker is started, and
\* the workflow state and the mask store stay as they are.
C1_DispatchWhileActiveRefused ==
  [][(workers # {} /\ Dispatch) =>
       /\ last'.outcome \in Rejected
       /\ UNCHANGED <<state, workers, njobs, base_masks, masks>>]_vars

\* C2: in every reachable state at most one background job is active.
C2_AtMostOneActiveJob == Cardinality(workers) <= 1

TriggerSources(op) ==
  CASE op = "on_load_finished" -> {"INITIAL"}
    [] op = "reset_roi" -> {"VOLUME_LOADED", "ROI_DEFINED", "MASK_READY"}
    [] op = "roi2_callback" -> {"VOLUME_LOADED"}
    [] op = "segment_roi" -> {"ROI_DEFINED"}
    [] op = "on_segmentation_finished" -> {"SEGMENTING"}
    [] op = "on_segmentation_error" -> {"SEGMENTING"}
    [] op = "apply_mask_refinement" -> {"MASK_READY"}
    [] op = "on_refinement_finished" -> {"REFINING"}
    [] op = "on_refinement_error" -> {"REFINING"}
    [] OTHER -> {}

\* C4: every change of the workflow state is an edge of the table taken by
\* its own trigger from a source state listed for that trigger, and a
\* handler that ends with IllegalTransitionError leaves the state unchanged.
C4_OnlyListedEdges ==
  [][/\ state' # state =>
          /\ <<state, state'>> \in Edges
          /\ state \in TriggerSources(last'.op)
     /\ (last' # last /\ last'.outcome = "IllegalTransitionError") => state' = state]_vars

\* C5: handling the finished signal (mask, stats) of a segmentation job
\* makes base and current mask of stats.organ_key equal to mask, appends
\* exactly one segmentation record for that organ and ends in MASK_READY.
C5_SegmentationSuccess ==
  [][on_segmentation_finished =>
       LET organ_key == Head(queue).organ
           mask == Head(queue).mask
       IN  /\ base_masks'[organ_key] = mask
           /\ masks'[organ_key] = mask
           /\ operation_history' =
                Append(operation_history, [type |-> "segmentation", organ |-> organ_key])
           /\ state' = "MASK_READY"]_vars

\* C5 witness: a segmentation result has just been stored.
C5_Witness ==
  /\ last = [op |-> "on_segmentation_finished", outcome |-> "ok"]
  /\ state = "MASK_READY"
  /\ \E o \in Organs : base_masks[o] # None

\* C6: handling the error signal of a segmentation job ends in ROI_DEFINED,
\* with every base and current mask and the history exactly as they were
\* when the job was dispatched.
C6_SegmentationFailure ==
  [][on_segmentation_error =>
       /\ state' = "ROI_DEFINED"
       /\ base_masks' = HeadJob.before.base_masks
       /\ masks' = HeadJob.before.masks
       /\ operation_history' = HeadJob.before.operation_history]_vars

\* C6 witness: a segmentation failed after an earlier one had filled the
\* mask store.
C6_Witness ==
  /\ last = [op |-> "on_segmentation_error", outcome |-> "ok"]
  /\ state = "ROI_DEFINED"
  /\ \E o \in Organs : base_masks[o] # None

\* C7: handling the finished signal of a refinement job replaces the current
\* mask of the job's organ only: every base mask and every other organ's
\* current mask are unchanged, exactly one refinement record is appended and
\* the state becomes MASK_READY.
C7_RefinementSuccess ==
  [][on_refinement_finished =>
       LET organ_key == HeadJob.organ
       IN  /\ masks'[organ_key] = Head(queue).mask
           /\ \A o \in Organs \ {organ_key} : masks'[o] = masks[o]
           /\ base_masks' = base_masks
           /\ operation_history' =
                Append(operation_history, [type |-> "refinement", organ |-> organ_key])
           /\ state' = "MASK_READY"]_vars

\* C7 witness: a refinement result differing from the base mask has just
\* been stored.
C7_Witness ==
  /\ last = [op |-> "on_refinement_finished", outcome |-> "ok"]
  /\ \E o \in Organs : masks[o] # base_masks[o]

\* C8: handling the error signal of a refinement job ends in MASK_READY and
\* changes no base mask and no current mask.
C8_RefinementFailure ==
  [][on_refinement_error =>
       /\ state' = "MASK_READY"
       /\ UNCHANGED <<base_masks, masks>>]_vars

\* C8 witness: a refinement has just failed.
C8_Witness ==
  /\ last = [op |-> "on_refinement_error", outcome |-> "ok"]
  /\ state = "MASK_READY"

\* C9: _apply_mask_refinement starts a worker only in MASK_READY for an
\* organ that has a base mask; otherwise it is refused at once, with the
\* workflow state and the workers unchanged.
C9_RefinementDispatchGuard ==
  [][apply_mask_refinement =>
       IF state = "MASK_READY" /\ organ_combo \in Organs /\ base_masks[organ_combo] # None
         THEN last'.outcome = "started"
         ELSE /\ last'.outcome \in Rejected
              /\ UNCHANGED <<state, workers, queue, njobs>>]_vars

\* C9 witness: a refinement was requested for an organ with a base mask
\* outside MASK_READY and was refused.
C9_Witness ==
  /\ last = [op |-> "apply_mask_refinement", outcome |-> "IllegalTransitionError"]
  /\ state # "MASK_READY"
  /\ organ_combo \in Organs

\* C10: _reset_to_base_mask makes the selected organ's current mask equal to
\* the mask of that organ's latest successful segmentation, whatever
\* refinements succeeded or failed since.
C10_ResetRestoresSegmentation ==
  [][(reset_to_base_mask /\ last'.outcome = "ok") =>
       masks'[organ_combo] = segmented[organ_combo]]_vars

\* C10 witness: the current mask was reset after a refinement had changed
\* it.
C10_Witness ==
  /\ last = [op |-> "reset_to_base_mask", outcome |-> "ok"]
  /\ Len(operation_history) > 1
  /\ operation_history[Len(operation_history)].type = "refinement"
  /\ masks[organ_combo] = segmented[organ_combo]

\* C11: the base mask of an organ changes only in the step that handles the
\* success of a segmentation for that organ; every other handler (refinement
\* dispatch, success and failure, reset to base, ROI drawing and reset,
\* volume load, segmentation failure) leaves every base mask as it is.
C11_BaseMaskOnlyBySegmentation ==
  [][\A o \in Organs :
       base_masks'[o] # base_masks[o] =>
         (on_segmentation_finished /\ Head(queue).organ = o)]_vars

\* C11 witness: a refinement has succeeded for an organ whose current mask
\* now differs from its base mask, and the base mask is still the one its
\* segmentation recorded.
C11_Witness ==
  /\ last = [op |-> "on_refinement_finished", outcome |-> "ok"]
  /\ \E o \in Organs :
       /\ base_masks[o] # None
       /\ masks[o] # base_masks[o]
       /\ base_masks[o] = segmented[o]

\* C12: the coordinator handles the signals of a job in the order the job
\* emitted them, every progress and log signal before the job's terminal
\* signal: whenever a queued signal is handled, every other queued signal of
\* the same job was emitted later and the handled one is not a terminal
\* signal that overtakes them, and a progress or log signal is handled only
\* while its job's terminal signal has not been handled.
C12_ProgressBeforeTerminal ==
  [][(queue # <<>> /\ queue' = Tail(queue)) =>
       LET e == Head(queue)
       IN  /\ \A k \in 2 .. Len(queue) :
                queue[k].job = e.job =>
                  (e.sig \in {"progress", "log"} /\ e.seq < queue[k].seq)
           /\ e.sig \in {"progress", "log"} => \E w \in workers : w.id = e.job]_vars

\* C12 witness: the job started after the load emitted three progress/log
\* signals, all were handled, and its finished signal has just been handled.
C12_Witness ==
  /\ last = [op |-> "on_segmentation_finished", outcome |-> "ok"]
  /\ njobs = 2
  /\ nprogress = MaxSignals
  /\ queue = <<>>

\* C13: while a segmentation (refinement) job is in flight the workflow
\* state is SEGMENTING (REFINING), and the only step that takes the state
\* out of it is the handling of the terminal signal of that very job; no
\* operator action, no signal of another job and no passage of time does,
\* so the state stays busy for as long as the job does not resolve.
C13_BusyUntilTerminal ==
  [][/\ (state = "SEGMENTING" /\ state' # state) =>
          /\ on_segmentation_finished \/ on_segmentation_error
          /\ \A w \in workers : w.kind = "segmentation" => w.id = Head(queue).job
     /\ (state = "REFINING" /\ state' # state) =>
          /\ on_refinement_finished \/ on_refinement_error
          /\ \A w \in workers : w.kind = "refinement" => w.id = Head(queue).job]_vars

\* C13 witness: during a segmentation the finished signal of a load worker
\* was handled, its transition was refused, and the state is still
\* SEGMENTING with the segmentation job unresolved.
C13_Witness ==
  /\ state = "SEGMENTING"
  /\ last = [op |-> "on_load_finished", outcome |-> "IllegalTransitionError"]
  /\ \E w \in workers : w.kind = "segmentation" /\ ~w.done

\* C14: when ROI 2 is drawn with ROI 1 of width w and height h set, and the
\* box of that size about the integer centre (cx, cy) of the drawn rectangle,
\* [cx - w div 2, cx - w div 2 + w] x [cy - h div 2, cy - h div 2 + h], lies
\* inside the slice, then the recorded ROI 2 is exactly that box and the
\* combined ROI is the two slices in order with that box.  The case of
\* shape (100,512,512), ROI 1 on slice 40 with x = y = [100,400] and ROI 2 on
\* slice 60 centred at (300,300) gives z = [40,60], x = y = [150,450].
C14_ROI2TakesROI1Size ==
  [][\A coords \in (IF roi_selector = "roi2" THEN ROIRects(volume) ELSE {}) :
       (roi2_callback(coords) /\ roi1_3d # Absent) =>
         LET w == roi1_3d[5] - roi1_3d[4]
             h == roi1_3d[3] - roi1_3d[2]
             x0 == (coords[1] + coords[2]) \div 2 - w \div 2
             y0 == (coords[3] + coords[4]) \div 2 - h \div 2
             fits == /\ 0 <= x0 /\ x0 + w <= volume[3] - 1
                     /\ 0 <= y0 /\ y0 + h <= volume[2] - 1
         IN  /\ fits =>
                  /\ roi2_3d' = <<current_slice, y0, y0 + h, x0, x0 + w>>
                  /\ get_combined_roi_coords(volume)' =
                       <<Min(roi1_3d[1], current_slice), Max(roi1_3d[1], current_slice),
                         y0, y0 + h, x0, x0 + w>>
             /\ ( /\ volume = <<100, 512, 512>>
                  /\ roi1_3d = <<40, 100, 400, 100, 400>>
                  /\ current_slice = 60
                  /\ coords = <<250, 350, 250, 350>> ) =>
                  get_combined_roi_coords(volume)' = <<40, 60, 150, 450, 150, 450>>]_vars

\* C14 witness: the case of the (100,512,512) volume has happened.
C14_Witness ==
  /\ last = [op |-> "roi2_callback", outcome |-> "ok"]
  /\ roi1_3d # Absent /\ roi2_3d # Absent
  /\ volume = <<100, 512, 512>>
  /\ roi1_3d = <<40, 100, 400, 100, 400>>
  /\ roi2_3d = <<60, 150, 450, 150, 450>>

\* C15: whatever the volume's shape, ROI 1 and the rectangle drawn for ROI 2
\* inside the slice, _roi2_callback ends without an error and the ROI 2 it
\* records satisfies 0 <= x_min <= x_max <= width - 1 and
\* 0 <= y_min <= y_max <= height - 1.
C15_ROI2InsideSlice ==
  [][\A coords \in (IF roi_selector = "roi2" THEN ROIRects(volume) ELSE {}) :
       (roi2_callback(coords) /\ roi1_3d # Absent) =>
         /\ last'.outcome = "ok"
         /\ 0 <= roi2_3d'[4] /\ roi2_3d'[4] <= roi2_3d'[5]
         /\ roi2_3d'[5] <= volume[3] - 1
         /\ 0 <= roi2_3d'[2] /\ roi2_3d'[2] <= roi2_3d'[3]
         /\ roi2_3d'[3] <= volume[2] - 1]_vars

\* C15 witness: ROI 2 was recorded narrower than ROI 1 because the box about
\* the drawn centre ran past the last column and was clipped to it.
C15_Witness ==
  /\ last = [op |-> "roi2_callback", outcome |-> "ok"]
  /\ roi1_3d # Absent /\ roi2_3d # Absent
  /\ roi2_3d[5] = volume[3] - 1
  /\ roi2_3d[5] - roi2_3d[4] < roi1_3d[5] - roi1_3d[4]

C18_HasBothAfterBothSet ==
  /\ ~has_both_rois
  /\ [][/\ (roi1_3d = Absent /\ roi1_3d' # Absent) =>
             (\E coords \in RawRects : roi1_callback(coords))
        /\ (roi2_3d = Absent /\ roi2_3d' # Absent) =>
             ((\E coords \in RawRects : roi2_callback(coords)) /\
              last'.outcome # "TypeError")
        /\ (~has_both_rois /\ has_both_rois') => (roi1_3d' # Absent /\ roi2_3d' # Absent)
        /\ reset_roi => (roi1_3d' = Absent /\ roi2_3d' = Absent /\ ~has_both_rois')]_vars

\* C18 witness: after a segmentation, with masks stored, the ROIs were reset
\* and has_both_rois is false again.
C18_Witness ==
  /\ last = [op |-> "reset_roi", outcome |-> "ok"]
  /\ ~has_both_rois
  /\ \E o \in Organs : masks[o] # None

\* C19: when _segment_roi rejects the request on the spot, because an ROI is
\* missing, the combined ROI is degenerate or out of bounds, or no model
\* instance could be made, it ends with that rejection, starts no worker and
\* leaves the workflow state, the mask store and the operation history as
\* they are.
C19_SynchronousRejection ==
  [][(/\ segment_roi
      /\ \/ ~has_both_rois
         \/ (has_both_rois /\ volume # Absent /\
             ~CombinedROIValid(get_combined_roi_coords(volume)))
         \/ last'.outcome = "ModelUnavailable") =>
       /\ last'.outcome \in {"warning", "ValueError", "ModelUnavailable"}
       /\ UNCHANGED <<state, workers, queue, njobs, base_masks, masks,
                      operation_history>>]_vars

\* C19 witness: a segmentation was asked for with both ROIs on one slice and
\* was rejected for the degenerate region, with a mask already in the store.
C19_Witness ==
  /\ last = [op |-> "segment_roi", outcome |-> "ValueError"]
  /\ has_both_rois
  /\ roi1_3d[1] = roi2_3d[1]
  /\ \E o \in Organs : masks[o] # None

\* C20: after the error signal of a load worker has been handled the
\* workflow state is INITIAL, whatever it was when the load was requested.
C20_LoadFailureInInitial ==
  [][on_load_error => state' = "INITIAL"]_vars

\* C21: the operation history is append-only: in every step it either stays
\* as it is or grows by one record at its end, so that its earlier content is
\* always a prefix of its later content.
C21_HistoryAppendOnly ==
  [][\/ operation_history' = operation_history
     \/ /\ Len(operation_history') = Len(operation_history) + 1
        /\ SubSeq(operation_history', 1, Len(operation_history)) = operation_history]_vars

\* C21 witness: the history holds a segmentation record followed by a
\* refinement record, and the mask was then reset to its base.
C21_Witness ==
  /\ last = [op |-> "reset_to_base_mask", outcome |-> "ok"]
  /\ Len(operation_history) = 2
  /\ operation_history[1].type = "segmentation"
  /\ operation_history[2].type = "refinement"

C23_ResetWithoutBaseFails ==
  [][(/\ reset_to_base_mask
      /\ (organ_combo \notin Organs \/ base_masks[organ_combo] = None)) =>
       /\ last'.outcome \in Rejected
       /\ UNCHANGED <<base_masks, masks>>]_vars

\* C24: _on_refinement_finished for an organ without a base mask ends with
\* an error and creates no current mask for it, so that a current mask
\* exists only for an organ that has a base mask.
C24_RefinementNeedsBase ==
  [][\A o \in Organs :
       (base_masks[o] = None /\ \E m \in MaskVals : refinement_finished(m, o)) =>
         /\ last'.outcome \in Rejected
         /\ masks'[o] = None]_vars

\* C25: loading the configuration never ends in a fatal error: with a missing,
\* unparseable or empty configuration file main() starts the application on
\* the built-in configuration, after a warning.
C25_ConfigNeverFatal ==
  (last.op = "main" /\ last.config_file \in {"missing", "unparseable", "empty"}) =>
    /\ last.outcome = "started"
    /\ last.config = get_default_config
    /\ last.warning

\* The busy states: every button is disabled in them.
Busy == {"SEGMENTING", "REFINING"}

\* Something can still happen: a button is enabled, a worker is running or
\* one of its signals is waiting for the event loop.
NotStuck ==
  \/ EnabledWidgets(state) # {}
  \/ queue # <<>>
  \/ \E w \in workers : ~w.done

\* The segment button is enabled and its handler finds both ROIs.
CanDispatchSegmentation == WidgetEnabled("btn_segment") /\ has_both_rois

\* C26: the workflow starts in INITIAL and has no terminal state: no reachable
\* state is a deadlock; when every started job emits its terminal signal, a
\* busy state (SEGMENTING, REFINING) is always eventually left; and a state
\* from which a segmentation can be dispatched stays reachable: an operator
\* who keeps working towards it gets there again and again, for as long as
\* the model's job budget lasts.
C26_NoTerminalState ==
  /\ state = "INITIAL"
  /\ [](NotStuck /\ ENABLED Next)
  /\ [](state \in Busy => <>(state \notin Busy))
  /\ (OperatorProceeds => []<>(CanDispatchSegmentation \/ njobs = MaxJobs))

\* A segmentation has ended, the ROI was reset and drawn again, and the next
\* segmentation can be dispatched.
C26_Witness ==
  /\ CanDispatchSegmentation
  /\ njobs < MaxJobs
  /\ \E o \in Organs : base_masks[o] # None
  /\ workers = {}

\* C27: the statistics of a mask are its voxel count and
\* volume_ml = voxel_count * spacing.x * spacing.y * spacing.z / 1000; a mask
\* of 500000 voxels with spacing (1,1,1) has volume_ml = 500.
C27_StatisticsVolume ==
  last.op = "get_mask_statistics" =>
    /\ last.stats.voxel_count = last.voxel_count
    /\ last.stats.volume_ml.ml * 1000 + last.stats.volume_ml.mm3 =
         last.voxel_count * last.spacing[1] * last.spacing[2] * last.spacing[3]
    /\ last.stats.volume_ml.mm3 \in 0 .. 999
    /\ (last.voxel_count = 500000 /\ last.spacing = <<1, 1, 1>>) =>
         last.stats.volume_ml = [ml |-> 500, mm3 |-> 0]

\* The statistics of a mask of 500000 voxels with spacing (1,1,1) were computed.
C27_Witness ==
  /\ last.op = "get_mask_statistics"
  /\ last.voxel_count = 500000
  /\ last.spacing = <<1, 1, 1>>
  /\ last.stats.voxel_count = 500000

\* The volume is a 3-dimensional array and the spacing has three elements,
\* all strictly positive.
ValidInput(vol, spacing) ==
  /\ vol.is_ndarray
  /\ vol.ndim = 3
  /\ spacing.has_len
  /\ Len(spacing.items) = 3
  /\ \A i \in 1 .. Len(spacing.items) : ~spacing.items[i].nan /\ spacing.items[i].v > 0

\* C28: validate_input returns True exactly when the volume is a
\* 3-dimensional array and the spacing has three elements that are all
\* strictly positive; for every other input it raises ValueError, and it
\* never returns False.
C28_ValidateInput ==
  last.op = "validate_input" =>
    /\ (last.outcome = "True") <=> ValidInput(last.vol, last.spacing)
    /\ last.outcome # "True" => last.outcome = "ValueError"
    /\ last.outcome # "False"

\* C29: every refinement job takes the organ's stored base mask as its
\* input, never the current mask: when a refinement is dispatched the new
\* worker is constructed on the base mask, and when it ends its result, the
\* refinement of that base mask, becomes the current mask and the base mask
\* stays.
C29_RefinementFromBase ==
  [][/\ (apply_mask_refinement /\ last'.outcome = "started") =>
          (\E w \in workers' \ workers :
             /\ w.kind = "refinement"
             /\ w.organ = organ_combo
             /\ w.input = base_masks[organ_combo])
     /\ on_refinement_finished =>
          (/\ HeadJob.input = HeadJob.before.base_masks[HeadJob.organ]
           /\ HeadJob.input = base_masks[HeadJob.organ]
           /\ masks'[HeadJob.organ] = Head(queue).mask
           /\ base_masks' = base_masks)]_vars

\* A refinement runs on the base mask of an organ whose current mask was
\* already something else when the job was dispatched.
C29_Witness ==
  \E w \in workers :
    /\ w.kind = "refinement"
    /\ w.before.masks[w.organ] # w.before.base_masks[w.organ]
    /\ w.input = w.before.base_masks[w.organ]
    /\ state = "REFINING"

\* C30: in every reachable state where the workflow state is ROI_DEFINED or
\* SEGMENTING both ROI annotations are present; in particular a segmentation
\* error never returns the machine to ROI_DEFINED with the ROIs cleared.
C30_ROIsPresentWhenDefined ==
  state \in {"ROI_DEFINED", "SEGMENTING"} => has_both_rois

\* A segmentation error has returned the machine to ROI_DEFINED, and both
\* ROI annotations are still there.
C30_Witness ==
  /\ state = "ROI_DEFINED"
  /\ last = Done("on_segmentation_error", "ok")
  /\ has_both_rois

\* C31: in every reachable state where the workflow state is not INITIAL a
\* volume has been loaded, and INITIAL is left only by a successful load,
\* which stores the volume and goes to VOLUME_LOADED.
C31_VolumeLoadedOutsideInitial ==
  /\ [](state # "INITIAL" => volume # Absent)
  /\ [][(state = "INITIAL" /\ state' # "INITIAL") =>
          (/\ on_load_finished
           /\ state' = "VOLUME_LOADED"
           /\ volume' # Absent)]_vars

\* After more than one load job the machine is in VOLUME_LOADED with the
\* volume of the load that succeeded.
C31_Witness ==
  /\ state = "VOLUME_LOADED"
  /\ volume # Absent
  /\ njobs >= 2
  /\ last = Done("on_load_finished", "ok")

\* C32: in every reachable state the organs that have a current mask are
\* the organs that have a base mask.
C32_CurrentIffBase ==
  \A o \in Organs : (masks[o] # None) <=> (base_masks[o] # None)

\* One organ has both masks, its current mask being the result of a
\* refinement, and another organ has neither.
C32_Witness ==
  \E o, p \in Organs :
    /\ base_masks[o] # None
    /\ masks[o] # None
    /\ masks[o] # base_masks[o]
    /\ base_masks[p] = None
    /\ masks[p] = None

C34_SegmentationFrame ==
  [][on_segmentation_finished =>
       \A o \in Organs \ {Head(queue).organ} :
         /\ base_masks'[o] = base_masks[o]
         /\ masks'[o] = masks[o]]_vars

\* A segmentation has just succeeded for one organ while another organ has
\* its masks from an earlier segmentation.
C34_Witness ==
  /\ last = Done("on_segmentation_finished", "ok")
  /\ \E p \in Organs \ {organ_combo} :
       /\ base_masks[p] # None
       /\ masks[p] = segmented[p]
       /\ masks[organ_combo] # None

\* C35: the result of a successful refinement is written to the current mask
\* of the organ the job was dispatched for, also when another organ is
\* selected in the combo by the time the finished signal is handled; the
\* selected organ's mask is then left alone.
C35_ResultToDispatchedOrgan ==
  [][on_refinement_finished =>
       /\ masks'[HeadJob.organ] = Head(queue).mask
       /\ organ_combo # HeadJob.organ => masks'[organ_combo] = masks[organ_combo]]_vars

\* A refinement dispatched for one organ has stored its result there while
\* the other organ was selected, and that organ's mask is as before.
C35_Witness ==
  /\ last = Done("on_refinement_finished", "ok")
  /\ operation_history # <<>>
  /\ LET organ_key == operation_history[Len(operation_history)].organ
     IN  /\ organ_key # organ_combo
         /\ masks[organ_key] = "m2"
         /\ masks[organ_combo] = "m1"

\* C36: in every reachable state operation_history has one record for each
\* segmentation or refinement job whose success was handled, each record
\* carries the kind and the organ of its job, and the records are in the
\* order in which the jobs completed.
C36_HistoryMatchesCompletedJobs ==
  /\ Len(operation_history) = Len(completed)
  /\ \A i \in 1 .. Len(completed) :
       operation_history[i] = [type |-> completed[i].kind, organ |-> completed[i].organ]

\* A segmentation and then a refinement have succeeded.
C36_Witness ==
  /\ Len(operation_history) = 2
  /\ operation_history[1].type = "segmentation"
  /\ operation_history[2].type = "refinement"
  /\ last = Done("on_refinement_finished", "ok")

\* A segmentation or refinement worker is active: started, and its terminal
\* signal not yet handled.
ComputeJobActive == \E w \in workers : w.kind \in {"segmentation", "refinement"}

\* C37: a terminal signal of a segmentation job is handled only in
\* SEGMENTING, one of a refinement job only in REFINING, and handling the
\* completion of a load never changes the workflow state while a
\* segmentation or refinement job is active.
C37_TerminalOnlyInBusyState ==
  [][/\ (on_segmentation_finished \/ on_segmentation_error) => state = "SEGMENTING"
     /\ (on_refinement_finished \/ on_refinement_error) => state = "REFINING"
     /\ ((on_load_finished \/ on_load_error) /\ ComputeJobActive) => state' = state]_vars

\* The completion of a second load was handled while a segmentation was
\* running, and the state is still SEGMENTING.
C37_Witness ==
  /\ last = Done("on_load_finished", "IllegalTransitionError")
  /\ state = "SEGMENTING"
  /\ \E w \in workers : w.kind = "segmentation"

\* C38: preprocess_volume with ROI (z0, z1, y0, y1, x0, x1) returns a copy
\* of the sub-volume that starts at (z0, y0, x0) and includes both end
\* indices on every axis, of extent (z1-z0+1, y1-y0+1, x1-x0+1); without an
\* ROI it returns a copy of the whole volume; it never writes to the volume
\* it was given.
C38_PreprocessVolume ==
  last.op = "preprocess_volume" =>
    LET r == last.roi_coords
        out == last.result
    IN  /\ ~out.shares_memory
        /\ ~out.volume_written
        /\ r = Absent => (out.first = <<0, 0, 0>> /\ out.shape = last.shape)
        /\ r # Absent =>
             /\ out.first = <<r[1], r[3], r[5]>>
             /\ out.shape = <<r[2] - r[1] + 1, r[4] - r[3] + 1, r[6] - r[5] + 1>>
             /\ \A a \in 1 .. 3 : out.first[a] + out.shape[a] - 1 = r[2 * a]

\* preprocess_volume was called with an ROI that is a proper part of the
\* volume, several voxels wide on an axis.
C38_Witness ==
  /\ last.op = "preprocess_volume"
  /\ last.roi_coords # Absent
  /\ last.roi_coords[5] > 0
  /\ last.roi_coords[6] > last.roi_coords[5]
  /\ last.result.shape[3] = 2

====
